---- MODULE Spec2Model ----
(***************************************************************************)
(* Model of the firmware checker (src/firmware_checker.py, src/device.py). *)
(*                                                                         *)
(* Python strings are sequences of character codes, so that isdigit, int,  *)
(* str, startswith, strip, sorted and SQL LIKE are computed as the code    *)
(* computes them.  None is the one-element sequence <<-1>>, which is no    *)
(* string.  A decoded property list is a tagged tree: a dict is an         *)
(* insertion-ordered sequence of <<key, value>> pairs with distinct keys,  *)
(* a scalar is a string.                                                   *)
(***************************************************************************)
EXTENDS Integers, Sequences, FiniteSets, TLC

None == <<-1>>

\* ---- string literals used by the code and by the inputs -----------------
S_AppleTV    == <<65, 112, 112, 108, 101, 84, 86>>          \* "AppleTV"
S_None       == <<78, 111, 110, 101>>                       \* "None"
S_Dash       == <<32, 45, 32>>                              \* " - "
S_Open       == <<32, 40>>                                  \* " ("
S_Close      == <<41>>                                      \* ")"
S_Build      == <<66, 117, 105, 108, 100, 58, 32>>          \* "Build: "
S_Sha        == <<44, 32, 83, 72, 65, 49, 58, 32>>          \* ", SHA1: "

iPhone1      == <<105, 80, 104, 111, 110, 101, 49>>         \* "iPhone1"
iPad1        == <<105, 80, 97, 100, 49>>                    \* "iPad1"
AppleTV1     == <<65, 112, 112, 108, 101, 84, 86, 49>>      \* "AppleTV1"
appletv1     == <<97, 112, 112, 108, 101, 116, 118, 49>>    \* "appletv1"

AAA          == <<65, 65, 65>>                              \* "AAA"
BBB          == <<66, 66, 66>>                              \* "BBB"
url_a        == <<97>>                                      \* "a"
url_b        == <<98>>                                      \* "b"
url_c        == <<99>>                                      \* "c"
url_sp_a     == <<32, 97>>                                  \* " a"
PV           == <<49, 55>>                                  \* "17"
BV           == <<50, 49, 65>>                              \* "21A"

K_1          == <<49>>                                      \* "1"
K_3          == <<51>>                                      \* "3"
K_10         == <<49, 48>>                                  \* "10"
K_abc        == <<97, 98, 99>>                              \* "abc"
K_010        == <<48, 49, 48>>                              \* "010"

\* ---- generic helpers ----------------------------------------------------
Range(s) == {s[i] : i \in 1..Len(s)}

Max(S) == CHOOSE x \in S : \A y \in S : y <= x

\* Python's str(x) inside an f-string: None prints as "None"
Fmt(x) == IF x = None THEN S_None ELSE x

\* str.isdigit() on ASCII input: non-empty and every character a digit
isdigit(k) == Len(k) > 0 /\ \A i \in 1..Len(k) : k[i] \in 48..57

\* int(k) for a string of decimal digits
RECURSIVE int(_)
int(k) == IF Len(k) = 0 THEN 0
          ELSE 10 * int(SubSeq(k, 1, Len(k) - 1)) + (k[Len(k)] - 48)

\* str(n) for n >= 0: canonical decimal digits, no leading zeros
RECURSIVE str(_)
str(n) == IF n < 10 THEN <<48 + n>>
          ELSE Append(str(n \div 10), 48 + (n % 10))

\* str.startswith(prefix): exact, case-sensitive
startswith(s, prefix) == /\ Len(s) >= Len(prefix)
                         /\ SubSeq(s, 1, Len(prefix)) = prefix

\* SQLite folds ASCII upper case to lower case when it evaluates LIKE
Fold(c) == IF c \in 65..90 THEN c + 32 ELSE c

\* hardware_code LIKE 'AppleTV%' in SQLite (case_sensitive_like is off)
LikeAppleTV(s) == /\ Len(s) >= Len(S_AppleTV)
                  /\ \A i \in 1..Len(S_AppleTV) : Fold(s[i]) = Fold(S_AppleTV[i])

\* characters removed by str.strip()
IsSpace(c) == c \in {9, 10, 11, 12, 13, 32}

RECURSIVE lstrip(_)
lstrip(s) == IF Len(s) > 0 /\ IsSpace(s[1]) THEN lstrip(Tail(s)) ELSE s

RECURSIVE rstrip(_)
rstrip(s) == IF Len(s) > 0 /\ IsSpace(s[Len(s)])
             THEN rstrip(SubSeq(s, 1, Len(s) - 1)) ELSE s

strip(s) == rstrip(lstrip(s))

\* Python's str ordering: lexicographic by character code
RECURSIVE LexLess(_, _)
LexLess(a, b) == IF Len(a) = 0 THEN Len(b) > 0
                 ELSE IF Len(b) = 0 THEN FALSE
                 ELSE IF a[1] # b[1] THEN a[1] < b[1]
                 ELSE LexLess(Tail(a), Tail(b))

\* sorted(list(set(...))) on a set of strings
RECURSIVE sorted(_)
sorted(S) == IF S = {} THEN <<>>
             ELSE LET m == CHOOSE x \in S : \A y \in S \ {x} : LexLess(x, y)
                  IN  <<m>> \o sorted(S \ {m})

\* ---- the decoded property list ------------------------------------------
Dict(pairs) == [tag |-> "dict", kv |-> pairs]

Scalar(s) == [tag |-> "str", val |-> s]

IsDict(node) == node.tag = "dict"

Keys(d) == {d.kv[i][1] : i \in 1..Len(d.kv)}

HasKey(d, k) == k \in Keys(d)

\* d[k] for a key that is present
Item(d, k) == d.kv[CHOOSE i \in 1..Len(d.kv) : d.kv[i][1] = k][2]

\* Python truthiness of a decoded value (None, {} and "" are falsy)
Truthy(node) == IF IsDict(node) THEN Len(node.kv) > 0
                ELSE IF node.tag = "str" THEN Len(node.val) > 0
                ELSE FALSE

\* mapping.get(k) of a string-valued field: the string, or None
Field(d, k) == IF HasKey(d, k) THEN Item(d, k).val ELSE None

AppleDevice(code, bv, sha, url, pv) ==
    [hardware_code |-> code, build_version |-> bv, firmware_sha1 |-> sha,
     firmware_url |-> url, product_version |-> pv]

\* ---- Manifest Extractor --------------------------------------------------
NoNode == [tag |-> "none"]

find_latest_version_node(data) ==
    LET numeric_keys == {int(k) : k \in {x \in Keys(data) : isdigit(x)}}
    IN  IF numeric_keys = {} THEN NoNode
        ELSE IF HasKey(data, str(Max(numeric_keys)))
             THEN Item(data, str(Max(numeric_keys)))
             ELSE NoNode

Returned(devs) == [raised |-> FALSE, devices |-> devs]

Raised == [raised |-> TRUE, devices |-> <<>>]

\* variant: the loop body without the check of the excluded prefix
DeviceStep_NoFilter(code, info) ==
    IF ~IsDict(info) THEN "raise"
    ELSE IF ~HasKey(info, "Unknown") THEN "skip"
    ELSE IF ~IsDict(Item(info, "Unknown")) THEN "raise"
    ELSE IF ~HasKey(Item(info, "Unknown"), "Universal") THEN "skip"
    ELSE IF ~IsDict(Item(Item(info, "Unknown"), "Universal")) THEN "raise"
    ELSE IF ~HasKey(Item(Item(info, "Unknown"), "Universal"), "Restore") THEN "skip"
    ELSE IF ~IsDict(Item(Item(Item(info, "Unknown"), "Universal"), "Restore")) THEN "raise"
    ELSE "append"

\* what one pass of the loop body does with (code, info):
\* "skip" (continue, or KeyError swallowed), "append", or "raise"
DeviceStep(code, info) ==
    IF startswith(code, S_AppleTV) THEN "skip"
    ELSE IF ~IsDict(info) THEN "raise"
    ELSE IF ~HasKey(info, "Unknown") THEN "skip"
    ELSE IF ~IsDict(Item(info, "Unknown")) THEN "raise"
    ELSE IF ~HasKey(Item(info, "Unknown"), "Universal") THEN "skip"
    ELSE IF ~IsDict(Item(Item(info, "Unknown"), "Universal")) THEN "raise"
    ELSE IF ~HasKey(Item(Item(info, "Unknown"), "Universal"), "Restore") THEN "skip"
    ELSE IF ~IsDict(Item(Item(Item(info, "Unknown"), "Universal"), "Restore")) THEN "raise"
    ELSE "append"

RestoreInfo(info) == Item(Item(Item(info, "Unknown"), "Universal"), "Restore")

DeviceOf(code, info) ==
    AppleDevice(code,
                Field(RestoreInfo(info), "BuildVersion"),
                Field(RestoreInfo(info), "FirmwareSHA1"),
                Field(RestoreInfo(info), "FirmwareURL"),
                Field(RestoreInfo(info), "ProductVersion"))

RECURSIVE ExtractLoop(_, _, _)
ExtractLoop(items, i, devices) ==
    IF i > Len(items) THEN Returned(devices)
    ELSE LET step == DeviceStep(items[i][1], items[i][2])
         IN  IF step = "raise" THEN Raised
             ELSE IF step = "skip" THEN ExtractLoop(items, i + 1, devices)
             ELSE ExtractLoop(items, i + 1,
                              Append(devices, DeviceOf(items[i][1], items[i][2])))

extract_firmware_info(full_data) ==
    IF ~HasKey(full_data, "MobileDeviceSoftwareVersionsByVersion") THEN Returned(<<>>)
    ELSE LET by_version_node == Item(full_data, "MobileDeviceSoftwareVersionsByVersion")
         IN  IF ~Truthy(by_version_node) THEN Returned(<<>>)
             ELSE IF ~IsDict(by_version_node) THEN Raised
             ELSE LET latest_version_node == find_latest_version_node(by_version_node)
                  IN  IF ~Truthy(latest_version_node) THEN Returned(<<>>)
                      ELSE IF ~IsDict(latest_version_node) THEN Raised
                      ELSE IF ~HasKey(latest_version_node, "MobileDeviceSoftwareVersions")
                           THEN Returned(<<>>)
                      ELSE LET versions == Item(latest_version_node,
                                                "MobileDeviceSoftwareVersions")
                           IN  IF ~Truthy(versions) THEN Returned(<<>>)
                               ELSE IF ~IsDict(versions) THEN Raised
                               ELSE ExtractLoop(versions.kv, 1, <<>>)

\* ---- State Store ----------------------------------------------------------
\* db.exists: the firmware table exists; db.rows: hardware_code -> row
NoRows == [c \in {} |-> None]

Row(device, t) ==
    [product_version |-> device.product_version,
     build_version |-> device.build_version,
     firmware_sha1 |-> device.firmware_sha1,
     firmware_url |-> device.firmware_url,
     last_checked |-> t]

\* variant: the DELETE has lost its WHERE clause
init_db_wipe(store) == [exists |-> TRUE, rows |-> NoRows]

\* CREATE TABLE IF NOT EXISTS, then DELETE ... WHERE hardware_code LIKE 'AppleTV%'
init_db(store) ==
    LET rows == IF store.exists THEN store.rows ELSE NoRows
    IN  [exists |-> TRUE,
         rows |-> [c \in {k \in DOMAIN rows : ~LikeAppleTV(k)} |-> rows[c]]]

\* SELECT hardware_code, firmware_sha1; no table (OperationalError) gives {}
get_existing_firmware(store) ==
    IF store.exists
    THEN [c \in DOMAIN store.rows |-> store.rows[c].firmware_sha1]
    ELSE NoRows

\* dict.get(key): None when the key is absent
Get(mapping, key) == IF key \in DOMAIN mapping THEN mapping[key] ELSE None

\* variant: INSERT OR IGNORE, a row that exists is kept as it is
Upsert_Ignore(rows, device, t) ==
    [c \in DOMAIN rows \cup {device.hardware_code} |->
        IF c = device.hardware_code /\ c \notin DOMAIN rows THEN Row(device, t) ELSE rows[c]]

\* INSERT OR REPLACE of one row
Upsert(rows, device, t) ==
    [c \in DOMAIN rows \cup {device.hardware_code} |->
        IF c = device.hardware_code THEN Row(device, t) ELSE rows[c]]

RECURSIVE UpsertLoop(_, _, _, _)
UpsertLoop(rows, devices, i, t) ==
    IF i > Len(devices) THEN rows
    ELSE UpsertLoop(Upsert(rows, devices[i], t), devices, i + 1, t)

update_database(store, devices, t) ==
    [exists |-> store.exists, rows |-> UpsertLoop(store.rows, devices, 1, t)]

\* the connection context manager rolls the transaction back when the body
\* raises, so the rows written so far are dropped
Rollback_Commit(before, partial) == partial

Rollback(before, partial) == before

\* update_database when a fault strikes after k of the rows have been written
update_database_fault(store, devices, k, t) ==
    [exists |-> store.exists,
     rows |-> Rollback(store.rows, UpsertLoop(store.rows, SubSeq(devices, 1, k), 1, t))]

\* ---- Reconciler (the list comprehension of main) --------------------------
IsUpdated(d, local) == d.firmware_sha1 # Get(local, d.hardware_code)

\* variant: the comprehension builds the list back to front
RECURSIVE Filter_Reversed(_, _, _)
Filter_Reversed(devices, i, local) ==
    IF i > Len(devices) THEN <<>>
    ELSE IF IsUpdated(devices[i], local)
         THEN Filter_Reversed(devices, i + 1, local) \o <<devices[i]>>
         ELSE Filter_Reversed(devices, i + 1, local)

RECURSIVE Filter(_, _, _)
Filter(devices, i, local) ==
    IF i > Len(devices) THEN <<>>
    ELSE IF IsUpdated(devices[i], local)
         THEN <<devices[i]>> \o Filter(devices, i + 1, local)
         ELSE Filter(devices, i + 1, local)

Updated(devices, local) == Filter(devices, 1, local)

\* ---- Feed Writer ----------------------------------------------------------
\* feed.exists: the file exists; feed.items: the <item> elements of the channel
FeedItem(device, t) ==
    [title |-> device.hardware_code \o S_Dash \o Fmt(device.product_version)
                 \o S_Open \o Fmt(device.build_version) \o S_Close,
     link |-> device.firmware_url,
     guid |-> device.firmware_url,
     pubDate |-> t,
     description |-> S_Build \o Fmt(device.build_version)
                       \o S_Sha \o Fmt(device.firmware_sha1)]

\* for item in channel.findall('item'): channel.remove(item)
RECURSIVE RemoveAll(_)
RemoveAll(items) == IF Len(items) = 0 THEN items ELSE RemoveAll(Tail(items))

\* for device in updated_devices: channel.append(item)
RECURSIVE AppendLoop(_, _, _, _)
AppendLoop(items, devices, i, t) ==
    IF i > Len(devices) THEN items
    ELSE AppendLoop(Append(items, FeedItem(devices[i], t)), devices, i + 1, t)

\* variant: the loop that removes the existing items is missing
update_rss_feed_keep(doc, devices, t) ==
    LET channel == IF doc.exists THEN doc.items ELSE <<>>
    IN  [exists |-> TRUE, items |-> AppendLoop(channel, devices, 1, t)]

\* variant: the new items are inserted before the existing ones
update_rss_feed_prepend(doc, devices, t) ==
    LET channel == IF doc.exists THEN doc.items ELSE <<>>
    IN  [exists |-> TRUE, items |-> AppendLoop(<<>>, devices, 1, t) \o channel]

update_rss_feed(doc, devices, t) ==
    LET channel == IF doc.exists THEN doc.items ELSE <<>>
    IN  [exists |-> TRUE, items |-> AppendLoop(RemoveAll(channel), devices, 1, t)]

\* ---- History Log ----------------------------------------------------------
\* hist: day -> lines of that day's file; the domain is the set of files
\* that exist.  The result tells whether the call raised and what it left.
WriteFile(hist, day, lines) ==
    [d \in DOMAIN hist \cup {day} |-> IF d = day THEN lines ELSE hist[d]]

\* sorted() compares None with a string as soon as the set has both
Unsortable(S) == None \in S /\ Cardinality(S) > 1

save_firmware_urls(devices, hist, day) ==
    LET new_set == {devices[i].firmware_url : i \in 1..Len(devices)}
        existing_urls == IF day \in DOMAIN hist
                         THEN {strip(hist[day][i]) : i \in 1..Len(hist[day])}
                         ELSE {}
        all_set == existing_urls \cup new_set
    IN  IF Unsortable(new_set) \/ Unsortable(all_set)
        THEN [raised |-> TRUE, hist |-> hist]
        ELSE IF None \in all_set
             \* open(.., 'w') has truncated the file when None + '\n' raises
             THEN [raised |-> TRUE, hist |-> WriteFile(hist, day, <<>>)]
             ELSE [raised |-> FALSE, hist |-> WriteFile(hist, day, sorted(all_set))]

\* ---- bounds ---------------------------------------------------------------
MaxNow == 2          \* the clock stops at this tick

TicksPerDay == 2     \* ticks in one calendar day

MaxRuns == 3         \* runs of main started by the scheduler

BigBatch == 51       \* size of the large batch handed to the Feed Writer

MaxSingles == 60     \* one-entry batches applied in a row

\* the day partition key, strftime('%Y-%m-%d')
DayOf(t) == t \div TicksPerDay

\* ---- inputs: decoded manifests --------------------------------------------
\* the Restore mapping; a field that is None is absent from the mapping
RestoreDict(bv, sha, url, pv) ==
    Dict((IF bv = None THEN <<>> ELSE << <<"BuildVersion", Scalar(bv)>> >>)
      \o (IF sha = None THEN <<>> ELSE << <<"FirmwareSHA1", Scalar(sha)>> >>)
      \o (IF url = None THEN <<>> ELSE << <<"FirmwareURL", Scalar(url)>> >>)
      \o (IF pv = None THEN <<>> ELSE << <<"ProductVersion", Scalar(pv)>> >>))

InfoOf(restore) ==
    Dict(<< <<"Unknown", Dict(<< <<"Universal", Dict(<< <<"Restore", restore>> >>)>> >>)>> >>)

Info(bv, sha, url) == InfoOf(RestoreDict(bv, sha, url, PV))

InfoNoUnknown == Dict(<< <<"Other", Scalar(url_a)>> >>)

InfoNoUniversal == Dict(<< <<"Unknown", Dict(<<>>)>> >>)

InfoNoRestore == Dict(<< <<"Unknown", Dict(<< <<"Universal", Dict(<<>>)>> >>)>> >>)

InfoScalar == Scalar(url_a)

VersionNode(pairs) == Dict(<< <<"MobileDeviceSoftwareVersions", Dict(pairs)>> >>)

Manifest(by_version) ==
    Dict(<< <<"MobileDeviceSoftwareVersionsByVersion", by_version>> >>)

\* a manifest with the single version group "10"
Manifest10(pairs) == Manifest(Dict(<< <<K_10, VersionNode(pairs)>> >>))

\* what fetch_and_parse_plist returns on a transport or decode error
FetchFailed == NoNode

\* a manifest that lists a device of the excluded family
AppleTVManifest ==
    Manifest10(<< <<AppleTV1, Info(BV, AAA, url_a)>>, <<iPhone1, Info(BV, AAA, url_a)>> >>)

PipelineManifests ==
    { Manifest10(<< <<iPhone1, Info(BV, AAA, url_a)>> >>),
      Manifest10(<< <<iPhone1, Info(BV, BBB, url_b)>> >>),
      Manifest10(<< <<iPhone1, Info(BV, None, url_a)>> >>),
      Manifest10(<< <<iPhone1, Info(BV, AAA, None)>> >>),
      Manifest10(<< <<iPhone1, Info(BV, AAA, url_a)>>, <<iPad1, Info(BV, AAA, url_sp_a)>> >>),
      Manifest10(<< <<iPad1, Info(BV, BBB, url_c)>>, <<iPhone1, Info(BV, AAA, url_b)>> >>),
      Manifest10(<< <<iPhone1, Info(BV, BBB, None)>>, <<iPad1, Info(BV, BBB, url_b)>> >>),
      AppleTVManifest,
      Manifest10(<< <<appletv1, Info(BV, AAA, url_a)>> >>),
      Manifest10(<< <<iPhone1, InfoNoRestore>>, <<iPad1, Info(BV, AAA, url_a)>> >>),
      Manifest10(<< <<iPhone1, InfoScalar>>, <<iPad1, Info(BV, AAA, url_a)>> >>),
      Manifest(Dict(<< <<K_010, VersionNode(<< <<iPhone1, Info(BV, AAA, url_a)>> >>)>> >>)),
      Dict(<< <<"Other", Scalar(url_a)>> >>),
      Dict(<<>>) }

\* ---- state ------------------------------------------------------------------
VARIABLES
    db,               \* State Store (firmware.db)
    feed,             \* Feed Document (firmware_rss.xml)
    history,          \* History Log (url_history/<day>_updates.txt)
    now,              \* datetime.now(), in ticks
    pc,               \* position of main; "idle" between runs
    local_firmware,   \* main's local_firmware
    plist_data,       \* main's plist_data (kept until the next fetch)
    remote_devices,   \* main's remote_devices
    updated_devices,  \* main's updated_devices
    outcome,          \* how the last run ended
    pre,              \* store, feed and log when the current run started
    repeat,           \* the current run fetched what the previous run fetched
    singles,          \* one-entry batches applied in a row to an empty feed
    runs              \* runs started so far

vars == <<db, feed, history, now, pc, local_firmware, plist_data, remote_devices,
          updated_devices, outcome, pre, repeat, singles, runs>>

NoStore == [exists |-> FALSE, rows |-> NoRows]

\* a store left by an earlier release that still tracked the AppleTV family
OldStore ==
    [exists |-> TRUE,
     rows |-> [c \in {AppleTV1, iPhone1} |->
                  Row(AppleDevice(c, BV, AAA, url_a, PV), 0)]]

NoFeed == [exists |-> FALSE, items |-> <<>>]

NoHistory == [d \in {} |-> <<>>]

Init ==
    /\ db \in {NoStore, OldStore}
    /\ feed = NoFeed
    /\ history = NoHistory
    /\ now = 0
    /\ pc = "idle"
    /\ local_firmware = NoRows
    /\ plist_data = FetchFailed
    /\ remote_devices = <<>>
    /\ updated_devices = <<>>
    /\ outcome = "none"
    /\ pre = [db |-> db, feed |-> feed, history |-> history]
    /\ repeat = FALSE
    /\ singles = 0
    /\ runs = 0

\* ---- main, one action per step ------------------------------------------------
\* the scheduler starts main
Start ==
    /\ pc = "idle"
    /\ runs < MaxRuns
    /\ runs' = runs + 1
    /\ pc' = "init_db"
    /\ pre' = [db |-> db, feed |-> feed, history |-> history]
    /\ local_firmware' = NoRows
    /\ remote_devices' = <<>>
    /\ updated_devices' = <<>>
    /\ outcome' = "running"
    /\ repeat' = FALSE
    /\ UNCHANGED <<db, feed, history, now, plist_data, singles>>

InitDb ==
    /\ pc = "init_db"
    /\ db' = init_db(db)
    /\ pc' = "get_existing_firmware"
    /\ UNCHANGED <<feed, history, now, local_firmware, plist_data, remote_devices,
                   updated_devices, outcome, pre, repeat, singles, runs>>

GetExistingFirmware ==
    /\ pc = "get_existing_firmware"
    /\ local_firmware' = get_existing_firmware(db)
    /\ pc' = "fetch_and_parse_plist"
    /\ UNCHANGED <<db, feed, history, now, plist_data, remote_devices,
                   updated_devices, outcome, pre, repeat, singles, runs>>

\* the fetch returns a decoded manifest
FetchOk ==
    /\ pc = "fetch_and_parse_plist"
    /\ \E m \in PipelineManifests :
          /\ Truthy(m)
          /\ plist_data' = m
          /\ repeat' = (plist_data = m)
    /\ pc' = "extract_firmware_info"
    /\ UNCHANGED <<db, feed, history, now, local_firmware, remote_devices,
                   updated_devices, outcome, pre, singles, runs>>

\* the fetch or the decoding fails (None), or the payload is an empty mapping
FetchFail ==
    /\ pc = "fetch_and_parse_plist"
    /\ \E m \in PipelineManifests \cup {FetchFailed} :
          /\ ~Truthy(m)
          /\ plist_data' = m
    /\ repeat' = FALSE
    /\ outcome' = "fetch_failed"
    /\ pc' = "idle"
    /\ UNCHANGED <<db, feed, history, now, local_firmware, remote_devices,
                   updated_devices, pre, singles, runs>>

ExtractFirmwareInfo ==
    /\ pc = "extract_firmware_info"
    /\ LET r == extract_firmware_info(plist_data)
       IN  IF r.raised
           THEN /\ outcome' = "raised_in_extract"
                /\ pc' = "idle"
                /\ UNCHANGED remote_devices
           ELSE /\ remote_devices' = r.devices
                /\ IF Len(r.devices) = 0
                   THEN outcome' = "no_records" /\ pc' = "idle"
                   ELSE pc' = "diff" /\ UNCHANGED outcome
    /\ UNCHANGED <<db, feed, history, now, local_firmware, plist_data,
                   updated_devices, pre, repeat, singles, runs>>

\* variant: the store is upserted and read again before the comparison
Diff_AfterUpsert ==
    /\ pc = "diff"
    /\ db' = update_database(db, remote_devices, now)
    /\ local_firmware' = get_existing_firmware(db')
    /\ updated_devices' = Updated(remote_devices, local_firmware')
    /\ IF Len(updated_devices') = 0
       THEN outcome' = "no_updates" /\ pc' = "idle"
       ELSE pc' = "update_database" /\ UNCHANGED outcome
    /\ UNCHANGED <<feed, history, now, plist_data, remote_devices, pre, repeat,
                   singles, runs>>

Diff ==
    /\ pc = "diff"
    /\ updated_devices' = Updated(remote_devices, local_firmware)
    /\ IF Len(updated_devices') = 0
       THEN outcome' = "no_updates" /\ pc' = "idle"
       ELSE pc' = "update_database" /\ UNCHANGED outcome
    /\ UNCHANGED <<db, feed, history, now, local_firmware, plist_data,
                   remote_devices, pre, repeat, singles, runs>>

UpdateDatabase ==
    /\ pc = "update_database"
    /\ db' = update_database(db, remote_devices, now)
    /\ pc' = "save_firmware_urls"
    /\ UNCHANGED <<feed, history, now, local_firmware, plist_data, remote_devices,
                   updated_devices, outcome, pre, repeat, singles, runs>>

\* an sqlite3 error is raised inside the loop of update_database; main ends
\* with the exception
UpdateDatabaseFault ==
    /\ pc = "update_database"
    /\ \E k \in 0..(Len(remote_devices) - 1) :
          db' = update_database_fault(db, remote_devices, k, now)
    /\ outcome' = "raised_in_update"
    /\ pc' = "idle"
    /\ UNCHANGED <<feed, history, now, local_firmware, plist_data, remote_devices,
                   updated_devices, pre, repeat, singles, runs>>

SaveFirmwareUrls ==
    /\ pc = "save_firmware_urls"
    /\ LET r == save_firmware_urls(updated_devices, history, DayOf(now))
       IN  /\ history' = r.hist
           /\ IF r.raised
              THEN outcome' = "raised_in_save" /\ pc' = "idle"
              ELSE pc' = "update_rss_feed" /\ UNCHANGED outcome
    /\ UNCHANGED <<db, feed, now, local_firmware, plist_data, remote_devices,
                   updated_devices, pre, repeat, singles, runs>>

\* variant: the feed is written from the whole extracted list
UpdateRssFeed_AllRemote ==
    /\ pc = "update_rss_feed"
    /\ feed' = update_rss_feed(feed, remote_devices, now)
    /\ outcome' = "updated"
    /\ pc' = "idle"
    /\ UNCHANGED <<db, history, now, local_firmware, plist_data, remote_devices,
                   updated_devices, pre, repeat, singles, runs>>

UpdateRssFeed ==
    /\ pc = "update_rss_feed"
    /\ feed' = update_rss_feed(feed, updated_devices, now)
    /\ outcome' = "updated"
    /\ pc' = "idle"
    /\ UNCHANGED <<db, history, now, local_firmware, plist_data, remote_devices,
                   updated_devices, pre, repeat, singles, runs>>

\* time passes
Tick ==
    /\ now < MaxNow
    /\ now' = now + 1
    /\ UNCHANGED <<db, feed, history, pc, local_firmware, plist_data, remote_devices,
                   updated_devices, outcome, pre, repeat, singles, runs>>

Next ==
    \/ Start
    \/ InitDb
    \/ GetExistingFirmware
    \/ FetchOk
    \/ FetchFail
    \/ ExtractFirmwareInfo
    \/ Diff
    \/ UpdateDatabase
    \/ UpdateDatabaseFault
    \/ SaveFirmwareUrls
    \/ UpdateRssFeed
    \/ Tick

Spec == Init /\ [][Next]_vars

\* ---- the Manifest Extractor on its own ----------------------------------------
VersionKeys == {K_1, K_3, K_10, K_abc, K_010}

Codes == {iPhone1, iPad1, AppleTV1}

Shapes == {"full", "no_unknown", "no_universal", "no_restore", "scalar"}

\* the info of one device; a full one carries the key of its version group
\* as its BuildVersion, which tells the groups apart
ShapeInfo(shape, k) ==
    CASE shape = "full" -> Info(k, AAA, url_a)
      [] shape = "no_unknown" -> InfoNoUnknown
      [] shape = "no_universal" -> InfoNoUniversal
      [] shape = "no_restore" -> InfoNoRestore
      [] shape = "scalar" -> InfoScalar

\* device lists: one or two devices with distinct codes
DeviceLists ==
    {<< <<c, sh>> >> : c \in Codes, sh \in Shapes}
    \cup {l \in {<< <<c1, sh1>>, <<c2, sh2>> >> :
                    c1 \in Codes, c2 \in Codes, sh1 \in Shapes, sh2 \in Shapes} :
             l[1][1] # l[2][1]}

Group(k, devs) ==
    VersionNode([i \in 1..Len(devs) |-> <<devs[i][1], ShapeInfo(devs[i][2], k)>>])

ByVersion(K, devs) ==
    Dict([i \in 1..Cardinality(K) |-> <<sorted(K)[i], Group(sorted(K)[i], devs)>>])

ExtractManifests ==
    {Manifest(ByVersion(K, devs)) : K \in SUBSET VersionKeys, devs \in DeviceLists}
    \cup {Manifest(Dict(<< <<K_3, Dict(<< <<"Other", Scalar(url_a)>> >>)>> >>)),
          Manifest(Dict(<< <<K_3, VersionNode(<<>>)>> >>)),
          Manifest(Scalar(url_a)),
          Dict(<< <<"Other", Scalar(url_a)>> >>)}

InitExtract ==
    /\ db = NoStore
    /\ feed = NoFeed
    /\ history = NoHistory
    /\ now = 0
    /\ pc = "extract_firmware_info"
    /\ local_firmware = NoRows
    /\ plist_data \in ExtractManifests
    /\ remote_devices = <<>>
    /\ updated_devices = <<>>
    /\ outcome = "running"
    /\ pre = [db |-> db, feed |-> feed, history |-> history]
    /\ repeat = FALSE
    /\ singles = 0
    /\ runs = 1

SpecExtract == InitExtract /\ [][ExtractFirmwareInfo]_vars

\* ---- the Feed Writer on its own -------------------------------------------------
Dev1 == AppleDevice(iPhone1, BV, AAA, url_a, PV)

Dev2 == AppleDevice(iPad1, BV, BBB, url_b, PV)

FeedBatches ==
    {<<>>, <<Dev1>>, <<Dev2>>, <<Dev1, Dev2>>, <<Dev2, Dev1>>,
     [i \in 1..BigBatch |-> Dev1]}

\* update_rss_feed applied to a batch
ApplyFeedWriter ==
    /\ pc = "idle"
    /\ singles < MaxSingles
    /\ \E batch \in FeedBatches :
          /\ updated_devices' = batch
          /\ feed' = update_rss_feed(feed, batch, now)
          /\ singles' = IF Len(batch) = 1 /\ singles >= 0 THEN singles + 1 ELSE -1
    /\ UNCHANGED <<db, history, now, pc, local_firmware, plist_data, remote_devices,
                   outcome, pre, repeat, runs>>

NextFeed == ApplyFeedWriter \/ Tick

InitFeed == Init /\ db = NoStore

SpecFeed == InitFeed /\ [][NextFeed]_vars

\* ---- the History Log on its own -------------------------------------------------
HistoryUrls == {url_a, url_b, url_c, url_sp_a, None}

HistoryBatches ==
    {<<AppleDevice(iPhone1, BV, AAA, u, PV)>> : u \in HistoryUrls}
    \cup {<<AppleDevice(iPhone1, BV, AAA, u1, PV), AppleDevice(iPad1, BV, AAA, u2, PV)>> :
            u1 \in HistoryUrls, u2 \in HistoryUrls}

\* save_firmware_urls applied to a batch
RecordHistory ==
    /\ pc = "idle"
    /\ \E batch \in HistoryBatches :
          LET r == save_firmware_urls(batch, history, DayOf(now))
          IN  /\ updated_devices' = batch
              /\ history' = r.hist
              /\ outcome' = IF r.raised THEN "raised_in_save" ELSE "recorded"
    /\ UNCHANGED <<db, feed, now, pc, local_firmware, plist_data, remote_devices,
                   pre, repeat, singles, runs>>

NextHistory == RecordHistory \/ Tick

InitHistory == Init /\ db = NoStore

SpecHistory == InitHistory /\ [][NextHistory]_vars

\* ---- properties -------------------------------------------------------------------
\* the diff of the current run has been computed
DiffDone ==
    \/ pc \in {"update_database", "save_firmware_urls", "update_rss_feed"}
    \/ pc = "idle" /\ outcome \in {"no_updates", "raised_in_update",
                                   "raised_in_save", "updated"}

InDelta(d) == d \in Range(updated_devices)

\* the stored fingerprint differs, a missing row counting as different
StoredDiffers(d, stored) ==
    IF d.hardware_code \in DOMAIN stored
    THEN stored[d.hardware_code] # d.firmware_sha1
    ELSE TRUE

\* C1: a remote record is in the delta if and only if the stored fingerprint of
\* its hardware_code differs from its firmware_sha1, a hardware_code without a
\* stored row counting as different (so a new device is always in the delta).
C1_ReconcilerRule ==
    DiffDone =>
        \A i \in 1..Len(remote_devices) :
            InDelta(remote_devices[i]) <=> StoredDiffers(remote_devices[i], local_firmware)

\* C2: a run that fetches the manifest the previous run fetched computes no
\* delta and leaves the Feed Document and the History Log as the previous run
\* left them.
C2_Idempotence ==
    repeat => /\ updated_devices = <<>>
              /\ feed = pre.feed
              /\ history = pre.history

\* C3: a device whose extracted firmware_sha1 is null is in the delta of every
\* run, also when its null fingerprint is already in the State Store.
C3_NullSticky ==
    DiffDone =>
        \A i \in 1..Len(remote_devices) :
            remote_devices[i].firmware_sha1 = None => InDelta(remote_devices[i])

\* C4 as stated: the Feed Document never holds more than 50 entries, and 60
\* one-entry batches applied to an empty feed leave exactly 50 entries.
C4_Original ==
    /\ Len(feed.items) <= 50
    /\ singles = 60 => Len(feed.items) = 50

\* C4 (amended): the Feed Document is not bounded by N_max; after
\* update_rss_feed it holds exactly as many entries as the batch just applied,
\* and after one-entry batches applied in a row it holds exactly one entry,
\* the one applied last.
C4_FeedHoldsLastBatch ==
    feed.exists =>
        /\ Len(feed.items) = Len(updated_devices)
        /\ singles >= 1 =>
              /\ Len(feed.items) = 1
              /\ feed.items[1].guid = updated_devices[1].firmware_url
              /\ feed.items[1].title = FeedItem(updated_devices[1], 0).title

\* 60 one-entry batches have been applied and the feed holds one entry
C4_Witness == singles = 60 /\ Len(feed.items) = 1

\* the entries update_rss_feed builds for a batch at time t
BatchItems(batch, t) == [i \in 1..Len(batch) |-> FeedItem(batch[i], t)]

\* C5 as stated: applying a batch to an existing document keeps every earlier
\* entry that tail truncation does not cut off, in order, behind the entries of
\* the new batch.
C5_Original ==
    [][ApplyFeedWriter /\ feed.exists =>
          \E k \in 0..Len(feed.items) :
              /\ feed'.items = BatchItems(updated_devices', now) \o SubSeq(feed.items, 1, k)
              /\ Len(updated_devices') + Len(feed.items) <= 50 => k = Len(feed.items)]_vars

\* C5 (amended): update_rss_feed preserves no earlier entry; afterwards the
\* document holds exactly the entries of the batch just applied, in batch
\* order, each built from its record and the current time.
C5_FeedReplaced ==
    [][ApplyFeedWriter => feed'.items = BatchItems(updated_devices', now)]_vars

\* a second one-entry batch has been applied to a document that held an entry
C5_Witness == singles = 2 /\ feed.exists /\ Len(feed.items) = 1

\* the lines of a day's partition file, none when the file does not exist
Partition(hist, day) == IF day \in DOMAIN hist THEN Range(hist[day]) ELSE {}

\* C6: after save_firmware_urls the day's partition is exactly the sorted,
\* duplicate-free union of its prior content and the firmware_url values of
\* the deltas, and no URL that was in a partition is removed from it.
C6_HistoryUnion ==
    [][RecordHistory =>
          LET day == DayOf(now)
              urls == {updated_devices'[i].firmware_url : i \in 1..Len(updated_devices')}
          IN  /\ day \in DOMAIN history'
              /\ history'[day] = sorted(Partition(history, day) \cup urls)
              /\ \A d \in DOMAIN history : Partition(history, d) \subseteq Partition(history', d)]_vars

\* the last run ended because the fetch or the decoding failed
FetchFailedRun == pc = "idle" /\ outcome = "fetch_failed"

\* C7 as stated: a run whose fetch or decoding fails leaves the rows of the
\* State Store, the Feed Document and the History Log as they were when the
\* run started.
C7_Original ==
    FetchFailedRun => /\ db.rows = pre.db.rows
                      /\ feed = pre.feed
                      /\ history = pre.history

\* C7 (amended): a run whose fetch or decoding fails leaves the Feed Document
\* and the History Log as they were, and changes the State Store only by what
\* init_db does before the fetch: the rows whose hardware_code matches
\* LIKE 'AppleTV%' are deleted, every other row is as it was.
C7_NoMutationButPrune ==
    FetchFailedRun =>
        /\ feed = pre.feed
        /\ history = pre.history
        /\ DOMAIN db.rows = {c \in DOMAIN pre.db.rows : ~LikeAppleTV(c)}
        /\ \A c \in DOMAIN db.rows : db.rows[c] = pre.db.rows[c]

\* a run whose fetch failed has deleted a stored AppleTV row and kept another
C7_Witness ==
    /\ FetchFailedRun
    /\ AppleTV1 \in DOMAIN pre.db.rows
    /\ DOMAIN db.rows = {iPhone1}

\* init_db has run at least once
InitDbDone == runs > 1 \/ (runs = 1 /\ pc # "init_db")

\* C8: no extracted record has a hardware_code with the prefix "AppleTV", and
\* once init_db has run no row of the State Store has such a key, whatever
\* the store held before and whatever the manifests list.
C8_Exclusion ==
    /\ \A i \in 1..Len(remote_devices) :
          ~startswith(remote_devices[i].hardware_code, S_AppleTV)
    /\ InitDbDone => \A c \in DOMAIN db.rows : ~startswith(c, S_AppleTV)

\* a run on a store that held an AppleTV row has extracted a manifest that
\* lists an AppleTV device, and has ended
C8_Witness ==
    /\ pc = "idle"
    /\ DiffDone
    /\ plist_data = AppleTVManifest
    /\ AppleTV1 \in DOMAIN pre.db.rows
    /\ Len(remote_devices) = 1

\* extract_firmware_info has returned a list / has raised
ExtractReturned == pc = "diff" \/ (pc = "idle" /\ outcome = "no_records")

ExtractRaised == pc = "idle" /\ outcome = "raised_in_extract"

\* the by-version grouping of a manifest is present
HasGrouping(m) ==
    /\ HasKey(m, "MobileDeviceSoftwareVersionsByVersion")
    /\ IsDict(Item(m, "MobileDeviceSoftwareVersionsByVersion"))

Grouping(m) == Item(m, "MobileDeviceSoftwareVersionsByVersion")

\* the keys that parse as non-negative integers, and those of maximal value
NumericKeys(data) == {k \in Keys(data) : Len(k) > 0 /\ \A i \in 1..Len(k) : k[i] \in 48..57}

MaxKeys(data) == {k \in NumericKeys(data) : \A j \in NumericKeys(data) : int(j) <= int(k)}

\* the info of a device has the full path Unknown -> Universal -> Restore
HasFullPath(info) ==
    /\ IsDict(info)
    /\ HasKey(info, "Unknown")
    /\ IsDict(Item(info, "Unknown"))
    /\ HasKey(Item(info, "Unknown"), "Universal")
    /\ IsDict(Item(Item(info, "Unknown"), "Universal"))
    /\ HasKey(Item(Item(info, "Unknown"), "Universal"), "Restore")

\* the hardware codes a version group must yield: its devices that are not
\* excluded and have the full path; none when it has no per-device mapping
CodesOf(group) ==
    IF /\ IsDict(group)
       /\ HasKey(group, "MobileDeviceSoftwareVersions")
       /\ IsDict(Item(group, "MobileDeviceSoftwareVersions"))
    THEN LET kv == Item(group, "MobileDeviceSoftwareVersions").kv
         IN  {kv[i][1] : i \in {j \in 1..Len(kv) :
                                   /\ ~startswith(kv[j][1], S_AppleTV)
                                   /\ HasFullPath(kv[j][2])}}
    ELSE {}

\* C9: when extract_firmware_info returns and the grouping has numeric keys,
\* the records come from the group whose key is the numeric maximum (each
\* record carries the key of its group as build_version), and there are
\* records whenever that group has a device to extract.
C9_VersionSelection ==
    (ExtractReturned /\ HasGrouping(plist_data)
        /\ NumericKeys(Grouping(plist_data)) # {}) =>
        /\ \A i \in 1..Len(remote_devices) :
              remote_devices[i].build_version \in MaxKeys(Grouping(plist_data))
        /\ (\E k \in MaxKeys(Grouping(plist_data)) :
               CodesOf(Item(Grouping(plist_data), k)) # {})
           => Len(remote_devices) > 0

\* C10: extract_firmware_info never raises; it returns no record when the
\* grouping, a numeric version group or the per-device mapping is absent, and
\* otherwise exactly one record for each non-excluded device of the selected
\* group that has the full path.
C10_ExtractorTotal ==
    (ExtractReturned \/ ExtractRaised) =>
        /\ ~ExtractRaised
        /\ IF HasGrouping(plist_data) /\ NumericKeys(Grouping(plist_data)) # {}
           THEN \E k \in MaxKeys(Grouping(plist_data)) :
                   /\ {remote_devices[i].hardware_code : i \in 1..Len(remote_devices)}
                        = CodesOf(Item(Grouping(plist_data), k))
                   /\ Len(remote_devices) = Cardinality(CodesOf(Item(Grouping(plist_data), k)))
           ELSE remote_devices = <<>>

\* the last run fetched, extracted at least one record and ended without a fault
CompletedRun == pc = "idle" /\ outcome \in {"no_updates", "updated"}

\* C11: a row exists for every hardware_code once a run has extracted it, and
\* a row whose hardware_code does not have the prefix "AppleTV" is never
\* deleted, so the set of such stored codes only grows.
C11_Lifecycle ==
    /\ [](CompletedRun =>
            \A i \in 1..Len(remote_devices) :
                remote_devices[i].hardware_code \in DOMAIN db.rows)
    /\ [][\A c \in DOMAIN db.rows :
             ~startswith(c, S_AppleTV) => c \in DOMAIN db'.rows]_vars

\* the stored mapping has been read and the store has not been upserted yet
ReadNotUpserted ==
    pc \in {"fetch_and_parse_plist", "extract_firmware_info", "diff", "update_database"}

\* C12 as stated: the mapping used by the diff is the store as it was before
\* any write of the run, and the rows change only by the upsert, which comes
\* after the diff.
C12_Original ==
    /\ [](ReadNotUpserted => local_firmware = get_existing_firmware(pre.db))
    /\ [][db'.rows # db.rows => pc = "update_database"]_vars

\* C12 (amended): the mapping used by the diff is read after init_db has
\* pruned the store and before any upsert of the run; between that read and
\* the upsert the store does not change, the delta is computed against that
\* mapping, and the rows change only in init_db and in update_database.
C12_SnapshotBeforeUpsert ==
    /\ [](ReadNotUpserted =>
            /\ local_firmware = get_existing_firmware(db)
            /\ db.rows = init_db(pre.db).rows)
    /\ [](DiffDone =>
            updated_devices = Updated(remote_devices, get_existing_firmware(init_db(pre.db))))
    /\ [][db'.rows # db.rows => pc \in {"init_db", "update_database"}]_vars

\* the delta has been computed against a mapping read after a prune, and the
\* upsert is still to come
C12_Witness ==
    /\ pc = "update_database"
    /\ AppleTV1 \in DOMAIN pre.db.rows
    /\ DOMAIN local_firmware = {iPhone1}
    /\ Len(updated_devices) = 1

\* every record of the batch is in the rows as update_database writes it at t
AllWritten(rows, devices, t) ==
    \A i \in 1..Len(devices) :
        /\ devices[i].hardware_code \in DOMAIN rows
        /\ rows[devices[i].hardware_code] = Row(devices[i], t)

\* the last run ended with a fault inside update_database
UpdateFaulted == pc = "idle" /\ outcome = "raised_in_update"

\* C13: update_database either writes every record of the batch or leaves the
\* State Store as it was; after a fault in the middle of the batch the store
\* holds the content it had before the call.
C13_AllOrNothing ==
    /\ [][(pc = "update_database" /\ pc' # pc) =>
             (db' = db \/ AllWritten(db'.rows, remote_devices, now))]_vars
    /\ [][(pc = "update_database" /\ pc' = "idle") => db' = db]_vars
    /\ [](UpdateFaulted => db = init_db(pre.db))

\* a batch of two records has met a fault in update_database
C13_Witness == UpdateFaulted /\ Len(remote_devices) = 2 /\ Len(updated_devices) = 2

\* the last run went through all three sinks
UpdatedRun == pc = "idle" /\ outcome = "updated"

\* the row of a hardware_code is new or differs from the row the run found
RowWritten(c) ==
    /\ c \in DOMAIN db.rows
    /\ (c \in DOMAIN pre.db.rows => db.rows[c] # pre.db.rows[c])

\* the row of a record holds the fields of the record
RowHolds(d) ==
    /\ d.hardware_code \in DOMAIN db.rows
    /\ db.rows[d.hardware_code].firmware_sha1 = d.firmware_sha1
    /\ db.rows[d.hardware_code].firmware_url = d.firmware_url
    /\ db.rows[d.hardware_code].build_version = d.build_version
    /\ db.rows[d.hardware_code].product_version = d.product_version

\* the feed holds an entry of the record
HasEntry(d) ==
    \E j \in 1..Len(feed.items) :
        /\ feed.items[j].guid = d.firmware_url
        /\ feed.items[j].title = FeedItem(d, 0).title
        /\ feed.items[j].description = FeedItem(d, 0).description

\* a partition of the History Log holds the URL of the record
UrlRecorded(d) == \E day \in DOMAIN history : d.firmware_url \in Partition(history, day)

\* C14 as stated: in a run that went through the three sinks, a record is
\* written to the State Store exactly when its entry is written to the feed
\* and its URL is recorded in the History Log.
C14_Original ==
    UpdatedRun =>
        \A i \in 1..Len(remote_devices) :
            RowWritten(remote_devices[i].hardware_code)
                <=> (HasEntry(remote_devices[i]) /\ UrlRecorded(remote_devices[i]))

\* C14 (amended): the Feed Writer and the History Log are applied to the
\* delta computed by the Reconciler in the run, the State Store upsert to the
\* whole extracted list, of which the delta is a part: the feed holds the
\* entries of the delta and no other, the log gains the URLs of the delta and
\* no other, and the store holds every extracted record, delta or not.
C14_SinkBatches ==
    UpdatedRun =>
        /\ updated_devices = Updated(remote_devices, local_firmware)
        /\ Len(feed.items) = Len(updated_devices)
        /\ \A i \in 1..Len(updated_devices) :
              /\ feed.items[i].guid = updated_devices[i].firmware_url
              /\ feed.items[i].title = FeedItem(updated_devices[i], 0).title
              /\ UrlRecorded(updated_devices[i])
              /\ updated_devices[i] \in Range(remote_devices)
        /\ \A day \in DOMAIN history :
              Partition(history, day) \subseteq
                  Partition(pre.history, day)
                  \cup {strip(u) : u \in Partition(pre.history, day)}
                  \cup {updated_devices[i].firmware_url : i \in 1..Len(updated_devices)}
        /\ \A i \in 1..Len(remote_devices) : RowHolds(remote_devices[i])

\* a run went through the three sinks with a delta smaller than the
\* extracted list
C14_Witness ==
    /\ UpdatedRun
    /\ Len(remote_devices) = 2
    /\ Len(updated_devices) = 1
    /\ RowWritten(remote_devices[2].hardware_code)
    /\ ~HasEntry(remote_devices[2])

\* s is t with some elements left out, the others in the order of t
IsOrderedSubseq(s, t) ==
    \E f \in [1..Len(s) -> 1..Len(t)] :
        /\ \A i \in 1..Len(s) : s[i] = t[f[i]]
        /\ \A i, j \in 1..Len(s) : i < j => f[i] < f[j]

\* C15: the delta list is an order-preserving subsequence of the extracted
\* list, and the feed entries of a batch stand in the Feed Document in the
\* order of the delta list.
C15_OrderPreserved ==
    /\ DiffDone => IsOrderedSubseq(updated_devices, remote_devices)
    /\ UpdatedRun => feed.items = [i \in 1..Len(updated_devices) |->
                                      FeedItem(updated_devices[i], feed.items[i].pubDate)]

\* a run wrote a feed of two entries from a delta of two records
C15_Witness ==
    /\ UpdatedRun
    /\ Len(updated_devices) = 2
    /\ Len(feed.items) = 2
    /\ updated_devices[1] # updated_devices[2]

RunEnded == pc = "idle" /\ outcome \notin {"none", "running"}

\* the fingerprint the store gives for the code is not the one the run found
FingerprintChanged(c) ==
    Get(get_existing_firmware(db), c) # Get(get_existing_firmware(pre.db), c)

\* the feed holds an entry for the row of the code, written by this run
EntryWritten(c) ==
    /\ outcome = "updated"
    /\ \E j \in 1..Len(feed.items) : feed.items[j].guid = db.rows[c].firmware_url

\* C17: when a run has ended, by a fault after update_database included,
\* every fingerprint change it committed to the State Store has its
\* firmware_url in a History Log partition and an entry in the Feed Document
\* written by that run.
C17_NoDeltaLost ==
    RunEnded =>
        \A c \in DOMAIN db.rows :
            FingerprintChanged(c) =>
                /\ \E day \in DOMAIN history :
                      db.rows[c].firmware_url \in Partition(history, day)
                /\ EntryWritten(c)

\* the run ended with an empty extraction or an empty delta
EmptyRun == pc = "idle" /\ outcome \in {"no_records", "no_updates"}

\* the rows left when the rows of the excluded prefix are taken out
WithoutExcluded(rows) ==
    [c \in {k \in DOMAIN rows : ~startswith(k, S_AppleTV)} |-> rows[c]]

\* C18: a run in which the extraction yields no record, or the delta is
\* empty, writes neither the Feed Document nor the History Log, and leaves
\* the rows of the State Store as they were but for the rows of the excluded
\* prefix, pruned by init_db.
C18_EmptyRunFrame ==
    EmptyRun =>
        /\ feed = pre.feed
        /\ history = pre.history
        /\ db.rows = WithoutExcluded(pre.db.rows)
====
